---- MODULE Spec2Model ----
(***************************************************************************)
(* Model of package perm: lexicographic next-permutation (LexNext,         *)
(* LexNextInt), the recursive and the iterative Steinhaus-Johnson-Trotter  *)
(* generators (SJTRecursive, SJTE) and the lexicographic rank codec        *)
(* (ZPerm.LexRank, LexPerm).                                               *)
(*                                                                         *)
(* Go slices are 0-based; a slice of length n is modelled as a TLA+        *)
(* sequence of length n and the code's index k is element k+1.             *)
(***************************************************************************)
EXTENDS Integers, Sequences, FiniteSets, TLC

VARIABLES
    lp,        \* Lex: the slice p handed to LexNext / LexNextInt / LexNextSort
    lstart,    \* Lex: contents of p before the first call
    lprev,     \* Lex: contents of p before the latest call
    lcalled,   \* Lex: TRUE once a call has been made
    lret,      \* Lex: return value of the latest call
    lvisited,  \* Lex: arrangements seen so far (the start counts)
    lpc,       \* Lex: "loop" while the caller iterates, "done" after false
    sp,        \* SJTRecursive: the slice p captured by the iterator
    sstart,    \* SJTRecursive: contents of p when the iterator was constructed
    sprev,     \* SJTRecursive: contents of p before the latest call
    sperm,     \* SJTRecursive: variable perm of the closure of each size
    si,        \* SJTRecursive: variable i of the closure of each size >= 2
    sd,        \* SJTRecursive: variable d of the closure of each size >= 2
    sswaps,    \* SJTRecursive: the swaps <<i, j>> done by the latest call, in order
    scalls,    \* SJTRecursive: calls of the iterator made so far
    sret,      \* SJTRecursive: return value of the latest call
    strues,    \* SJTRecursive: contents of p after each call that returned true, in order
    en,        \* SJTE: the argument n
    ep,        \* SJTE: the array p, indices 0..n+1 (cells 0 and n+1 are guards)
    ed,        \* SJTE: the direction array d, indices 0..n+1
    eprev,     \* SJTE: p before the latest call
    edprev,    \* SJTE: d before the latest call
    ecalls,    \* SJTE: calls of the step function made so far
    ecycles,   \* SJTE: false returns so far
    eret,      \* SJTE: return value of the latest call
    epanic,    \* SJTE: TRUE once a call has ended in an index-out-of-range panic
    efirst,    \* SJTE: history of the first cycle: per call, its return value, p and d[1..n]
    rn,        \* Rank: the size n
    rkind,     \* Rank: "perm" when the caller starts from a permutation, "rank" from an
               \* integer, "ints" from a sequence that need not be a permutation
    rorigp,    \* Rank: the caller's sequence (kinds "perm" and "ints")
    rorigr,    \* Rank: the caller's integer (kind "rank")
    rstage,    \* Rank: calls made so far (0, 1 or 2)
    rperm,     \* Rank: the permutation at hand (the caller's, or LexPerm's result)
    rrank,     \* Rank: the integer at hand (the caller's, or LexRank's result)
    rrankpanic, \* Rank: TRUE when LexRank ended in an index-out-of-range panic
    rlex       \* Rank: what the latest LexPerm call did and returned

lexVars == <<lp, lstart, lprev, lcalled, lret, lvisited, lpc>>

sjtrVars == <<sp, sstart, sprev, sperm, si, sd, sswaps, scalls, sret, strues>>

sjteVars == <<en, ep, ed, eprev, edprev, ecalls, ecycles, eret, epanic, efirst>>

rankVars == <<rn, rkind, rorigp, rorigr, rstage, rperm, rrank, rrankpanic, rlex>>

vars == <<lexVars, sjtrVars, sjteVars, rankVars>>

notLex == <<sjtrVars, sjteVars, rankVars>>

notSjtr == <<lexVars, sjteVars, rankVars>>

notSjte == <<lexVars, sjtrVars, rankVars>>

notRank == <<lexVars, sjtrVars, sjteVars>>

----------------------------------------------------------------------------
(* Bounds of the model. *)

MaxLen == 4

MaxVal == 2

Vals == 0..MaxVal

\* SJTRecursive: longest slice, and calls made after the first false return
SjtrMaxN == 4

SjtrExtraCalls == 2

\* SJTE: largest n, and the number of cycles driven
SjteMaxN == 5

SjteMaxCycles == 2

\* Rank codec: largest n, and how far outside 0..n!-1 the integers tried go
RankMaxN == 5

RankSlack == 2

\* Rank codec, sequences that need not be permutations: largest length, and
\* the values tried are -RankBadVal..RankBadVal
RankBadLen == 3

RankBadVal == 4

----------------------------------------------------------------------------
(* Slice helpers. *)

\* p[i] of the Go code
At(p, i) == p[i + 1]

\* p[i], p[j] = p[j], p[i]
Swap(p, i, j) == [p EXCEPT ![i + 1] = p[j + 1], ![j + 1] = p[i + 1]]

RECURSIVE Factorial(_)
Factorial(n) == IF n <= 1 THEN 1 ELSE n * Factorial(n - 1)

----------------------------------------------------------------------------
(* LexNext, src/perm.go *)

\* LexNextPivot that tests k == 0 before comparing, so index 0 is never a pivot
RECURSIVE LexNextPivotSkipsZero(_, _)
LexNextPivotSkipsZero(p, k) ==
    IF k = 0 THEN -1
    ELSE IF At(p, k) >= At(p, k + 1) THEN LexNextPivotSkipsZero(p, k - 1) ELSE k

\* for ; p[k] >= p[k+1]; k-- { if k == 0 { return false } }   (-1: returned false)
RECURSIVE LexNextPivot(_, _)
LexNextPivot(p, k) ==
    IF At(p, k) >= At(p, k + 1)
    THEN IF k = 0 THEN -1 ELSE LexNextPivot(p, k - 1)
    ELSE k

\* LexNextSucc taking the rightmost element, whatever its value
LexNextSuccLast(p, k, l) == l

\* for ; p[k] >= p[l]; l-- {}
RECURSIVE LexNextSucc(_, _, _)
LexNextSucc(p, k, l) ==
    IF At(p, k) >= At(p, l) THEN LexNextSucc(p, k, l - 1) ELSE l

\* LexNextReverse that leaves the tail as the swap left it
LexNextReverseNone(p, l, r) == p

\* for l, r := k+1, last; l < r; l, r = l+1, r-1 { p[l], p[r] = p[r], p[l] }
RECURSIVE LexNextReverse(_, _, _)
LexNextReverse(p, l, r) ==
    IF l < r THEN LexNextReverse(Swap(p, l, r), l + 1, r - 1) ELSE p

LexNext(p) ==
    IF Len(p) <= 1 THEN [p |-> p, r |-> FALSE]
    ELSE LET last == Len(p) - 1
             k == LexNextPivot(p, last - 1)
         IN  IF k = -1 THEN [p |-> p, r |-> FALSE]
             ELSE LET l == LexNextSucc(p, k, last)
                      q == Swap(p, k, l)
                  IN  [p |-> LexNextReverse(q, k + 1, last), r |-> TRUE]

----------------------------------------------------------------------------
(* LexNextInt, the int-slice specialisation *)

RECURSIVE LexNextIntPivot(_, _)
LexNextIntPivot(p, k) ==
    IF At(p, k) >= At(p, k + 1)
    THEN IF k = 0 THEN -1 ELSE LexNextIntPivot(p, k - 1)
    ELSE k

RECURSIVE LexNextIntSucc(_, _, _)
LexNextIntSucc(p, k, l) ==
    IF At(p, k) >= At(p, l) THEN LexNextIntSucc(p, k, l - 1) ELSE l

RECURSIVE LexNextIntReverse(_, _, _)
LexNextIntReverse(p, l, r) ==
    IF l < r THEN LexNextIntReverse(Swap(p, l, r), l + 1, r - 1) ELSE p

LexNextInt(p) ==
    IF Len(p) <= 1 THEN [p |-> p, r |-> FALSE]
    ELSE LET last == Len(p) - 1
             k == LexNextIntPivot(p, last - 1)
         IN  IF k = -1 THEN [p |-> p, r |-> FALSE]
             ELSE LET l == LexNextIntSucc(p, k, last)
                      q == Swap(p, k, l)
                  IN  [p |-> LexNextIntReverse(q, k + 1, last), r |-> TRUE]

----------------------------------------------------------------------------
(* LexNextSort, on a sort.Interface over an int slice *)

\* the sort.Interface handed to LexNextSort: Len() is len(p), Less(i, j) is
\* p[i] < p[j], Swap(i, j) exchanges p[i] and p[j]
SliceLen(p) == Len(p)

SliceLess(p, i, j) == At(p, i) < At(p, j)

SliceSwap(p, i, j) == Swap(p, i, j)

\* for ; !p.Less(k, k+1); k-- { if k == 0 { return false } }   (-1: returned false)
RECURSIVE LexNextSortPivot(_, _)
LexNextSortPivot(p, k) ==
    IF ~SliceLess(p, k, k + 1)
    THEN IF k = 0 THEN -1 ELSE LexNextSortPivot(p, k - 1)
    ELSE k

\* the successor scan that runs while p.Less(l, k), so it stops at an
\* element equal to the pivot
RECURSIVE LexNextSortSuccStopsAtEqual(_, _, _)
LexNextSortSuccStopsAtEqual(p, k, l) ==
    IF SliceLess(p, l, k) THEN LexNextSortSuccStopsAtEqual(p, k, l - 1) ELSE l

\* for ; !p.Less(k, l); l-- {}
RECURSIVE LexNextSortSucc(_, _, _)
LexNextSortSucc(p, k, l) ==
    IF ~SliceLess(p, k, l) THEN LexNextSortSucc(p, k, l - 1) ELSE l

\* for l, r := k+1, last; l < r; l, r = l+1, r-1 { p.Swap(l, r) }
RECURSIVE LexNextSortReverse(_, _, _)
LexNextSortReverse(p, l, r) ==
    IF l < r THEN LexNextSortReverse(SliceSwap(p, l, r), l + 1, r - 1) ELSE p

LexNextSort(p) ==
    IF SliceLen(p) <= 1 THEN [p |-> p, r |-> FALSE]
    ELSE LET last == SliceLen(p) - 1
             k == LexNextSortPivot(p, last - 1)
         IN  IF k = -1 THEN [p |-> p, r |-> FALSE]
             ELSE LET l == LexNextSortSucc(p, k, last)
                      q == SliceSwap(p, k, l)
                  IN  [p |-> LexNextSortReverse(q, k + 1, last), r |-> TRUE]

----------------------------------------------------------------------------
(* The caller's loop: for LexNext(p) { ... } *)

LexStart ==
    /\ lp \in UNION {[1..n -> Vals] : n \in 0..MaxLen}
    /\ lstart = lp
    /\ lprev = lp
    /\ lcalled = FALSE
    /\ lret = FALSE
    /\ lvisited = 1
    /\ lpc = "loop"

\* the Lex variables while another family runs
LexIdle ==
    /\ lp = <<>>
    /\ lstart = <<>>
    /\ lprev = <<>>
    /\ lcalled = FALSE
    /\ lret = FALSE
    /\ lvisited = 0
    /\ lpc = "idle"

LexReturn(res) ==
    /\ lprev' = lp
    /\ lp' = res.p
    /\ lcalled' = TRUE
    /\ lret' = res.r
    /\ lvisited' = IF res.r THEN lvisited + 1 ELSE lvisited
    /\ lpc' = IF res.r THEN "loop" ELSE "done"
    /\ UNCHANGED <<lstart, notLex>>

CallLexNext ==
    /\ lpc = "loop"
    /\ LexReturn(LexNext(lp))

CallLexNextInt ==
    /\ lpc = "loop"
    /\ LexReturn(LexNextInt(lp))

CallLexNextSort ==
    /\ lpc = "loop"
    /\ LexReturn(LexNextSort(lp))

LexNextStep == CallLexNext \/ CallLexNextInt \/ CallLexNextSort

----------------------------------------------------------------------------
(* SJTRecursive and sjtr, src/perm.go                                      *)
(*                                                                         *)
(* sjtr(n) builds a chain of closures, one of each size n, n-1, ..., 1     *)
(* (the single closure of size 0 when n = 0).  The record c carries the    *)
(* captured variables of every closure of the chain (perm, i, d), the      *)
(* backing array p and the swaps done so far in this call.  A closure is   *)
(* handed a sub-slice of the array: off is the array index of its p[0].    *)

\* the sizes of the closures sjtr(n) creates
SjtrSizes(n) == IF n = 0 THEN {0} ELSE 1..n

\* p[i], p[j] = p[j], p[i] on the sub-slice that starts at array index off
SjtrSwap(c, off, i, j) ==
    [c EXCEPT !.p = Swap(c.p, off + i, off + j),
              !.swaps = Append(c.swaps, <<off + i, off + j>>)]

\* the base case that arms itself again after a false return
SjtrBaseRearms(m, c) == [c |-> [c EXCEPT !.perm[m] = ~c.perm[m]], r |-> c.perm[m]]

\* case 0, 1: r = perm; perm = false; return
SjtrBase(m, c) == [c |-> [c EXCEPT !.perm[m] = FALSE], r |-> c.perm[m]]

\* the dropped guard: the swap of p[0] and p[1] is done whatever perm is
SjtrCompensateAlways(c, off, perm) == SjtrSwap(c, off, 0, 1)

\* if !perm { p[0], p[1] = p[1], p[0] }
SjtrCompensate(c, off, perm) ==
    IF ~perm THEN SjtrSwap(c, off, 0, 1) ELSE c

\* the default case without its swap: only i moves
SjtrDefaultNoSwap(m, c, off) ==
    [c EXCEPT !.i[m] = c.i[m] + c.d[m]]

\* default: p[i], p[i-1] = p[i-1], p[i]; i += d
SjtrDefault(m, c, off) ==
    LET i == c.i[m]
    IN  [SjtrSwap(c, off, i, i - 1) EXCEPT !.i[m] = i + c.d[m]]

\* the closure of size m called on the sub-slice at off
RECURSIVE SjtrClosure(_, _, _)
SjtrClosure(m, c, off) ==
    IF m <= 1 THEN SjtrBase(m, c)
    ELSE IF ~c.perm[m] THEN [c |-> c, r |-> c.perm[m]]
    ELSE IF c.i[m] = m THEN
        \* i--; perm = p0(p[:i]); d = -1
        LET sub == SjtrClosure(m - 1, [c EXCEPT !.i[m] = m - 1], off)
        IN  [c |-> [sub.c EXCEPT !.perm[m] = sub.r, !.d[m] = -1], r |-> sub.r]
    ELSE IF c.i[m] = 0 THEN
        \* i++; perm = p0(p[1:]); d = 1; if !perm { swap p[0], p[1] }
        LET sub == SjtrClosure(m - 1, [c EXCEPT !.i[m] = 1], off + 1)
            c1 == [sub.c EXCEPT !.perm[m] = sub.r, !.d[m] = 1]
        IN  [c |-> SjtrCompensate(c1, off, sub.r), r |-> sub.r]
    ELSE [c |-> SjtrDefault(m, c, off), r |-> c.perm[m]]

\* contents a caller may hand over: 0..n-1 in order, or any mix of two values
SjtrSlices(n) == {[k \in 1..n |-> k - 1]} \cup [1..n -> {0, 1}]

\* f := sjtr(len(p)): perm = true in every closure, i = n and d = 0 in the
\* closure of each size n >= 2
SjtrStart ==
    /\ sp \in UNION {SjtrSlices(n) : n \in 0..SjtrMaxN}
    /\ sstart = sp
    /\ sprev = sp
    /\ sperm = [m \in SjtrSizes(Len(sp)) |-> TRUE]
    /\ si = [m \in 2..Len(sp) |-> m]
    /\ sd = [m \in 2..Len(sp) |-> 0]
    /\ sswaps = <<>>
    /\ scalls = 0
    /\ sret = FALSE
    /\ strues = <<>>

\* the SJTRecursive variables while another family runs
SjtrIdle ==
    /\ sp = <<>>
    /\ sstart = <<>>
    /\ sprev = <<>>
    /\ sperm = <<>>
    /\ si = <<>>
    /\ sd = <<>>
    /\ sswaps = <<>>
    /\ scalls = 0
    /\ sret = FALSE
    /\ strues = <<>>

\* n!, the number of arrangements of the slice by position
SjtrFactorial == Factorial(Len(sstart))

\* one call of the iterator SJTRecursive returned: return f(p)
CallSJTRecursive ==
    /\ scalls < SjtrFactorial + 1 + SjtrExtraCalls
    /\ LET res == SjtrClosure(Len(sp),
                      [perm |-> sperm, i |-> si, d |-> sd, p |-> sp, swaps |-> <<>>],
                      0)
       IN  /\ sp' = res.c.p
           /\ sperm' = res.c.perm
           /\ si' = res.c.i
           /\ sd' = res.c.d
           /\ sswaps' = res.c.swaps
           /\ sret' = res.r
           /\ strues' = IF res.r THEN Append(strues, res.c.p) ELSE strues
    /\ sprev' = sp
    /\ scalls' = scalls + 1
    /\ UNCHANGED <<sstart, notSjtr>>

----------------------------------------------------------------------------
(* SJTE, src/perm.go                                                       *)
(*                                                                         *)
(* p and d are slices of length n+2, modelled as functions on 0..n+1.      *)

\* whether index i is inside a slice of length n+2
SjteInRange(n, i) == 0 <= i /\ i <= n + 1

\* p := make([]int, n+2); p[0] = n; for i := range p[1:] { p[i+1] = i }
SjteNewP(n) == [i \in 0..(n + 1) |-> IF i = 0 THEN n ELSE i - 1]

\* d := make([]int, n+2); for i := range p[1:] { d[i] = -1 }
SjteNewD(n) == [i \in 0..(n + 1) |-> IF i <= n THEN -1 ELSE 0]

\* the scan that stops at the first mobile element instead of the largest
RECURSIVE SjteScanFirstMobile(_, _, _, _, _)
SjteScanFirstMobile(n, p, d, i, acc) ==
    IF i > n \/ acc.panic THEN acc
    ELSE IF ~SjteInRange(n, i + d[i]) THEN [acc EXCEPT !.panic = TRUE]
    ELSE IF p[i] > p[i + d[i]] THEN [acc EXCEPT !.max = p[i], !.k = i]
    ELSE SjteScanFirstMobile(n, p, d, i + 1, acc)

\* for i := 1; i <= n; i++ { if v := p[i]; v > max && v > p[i+d[i]] { max = v; k = i } }
\* acc = [max, k, panic]; panic when p[i+d[i]] is read out of range
RECURSIVE SjteScan(_, _, _, _, _)
SjteScan(n, p, d, i, acc) ==
    IF i > n \/ acc.panic THEN acc
    ELSE LET v == p[i]
         IN  IF v > acc.max
             THEN IF ~SjteInRange(n, i + d[i])
                  THEN [acc EXCEPT !.panic = TRUE]
                  ELSE IF v > p[i + d[i]]
                       THEN SjteScan(n, p, d, i + 1, [acc EXCEPT !.max = v, !.k = i])
                       ELSE SjteScan(n, p, d, i + 1, acc)
             ELSE SjteScan(n, p, d, i + 1, acc)

\* the reset without its loop over d: only the array is put back
SjteResetArrayOnly(n, p, d) ==
    IF ~SjteInRange(n, 1) \/ ~SjteInRange(n, 2)
    THEN [p |-> p, d |-> d, r |-> FALSE, panic |-> TRUE]
    ELSE [p |-> [p EXCEPT ![1] = 0, ![2] = 1], d |-> d, r |-> FALSE, panic |-> FALSE]

\* if k == 0 { p[1], p[2] = 0, 1; for i := 3; i <= n; i++ { d[i] = -1 }; return false }
\* p[2] is outside the slice when n = 0; p[1] already holds 0 then, so the
\* array is the same whether or not p[1] was stored before the panic
SjteReset(n, p, d) ==
    IF ~SjteInRange(n, 1) \/ ~SjteInRange(n, 2)
    THEN [p |-> p, d |-> d, r |-> FALSE, panic |-> TRUE]
    ELSE [p |-> [p EXCEPT ![1] = 0, ![2] = 1],
          d |-> [i \in 0..(n + 1) |-> IF 3 <= i /\ i <= n THEN -1 ELSE d[i]],
          r |-> FALSE, panic |-> FALSE]

\* the move that leaves every direction flag as it is
SjteFlipNone(n, p, d, max) == d

\* for i := 1; i <= n; i++ { if p[i] > max { d[i] = -d[i] } }
SjteFlip(n, p, d, max) ==
    [i \in 0..(n + 1) |-> IF 1 <= i /\ i <= n /\ p[i] > max THEN -d[i] ELSE d[i]]

\* nx := k + d[k]; p[k], p[nx] = p[nx], max; d[k], d[nx] = d[nx], d[k]; flip
SjteMove(n, p, d, k, max) ==
    LET nx == k + d[k]
    IN  IF ~SjteInRange(n, nx)
        THEN [p |-> p, d |-> d, r |-> FALSE, panic |-> TRUE]
        ELSE LET p1 == [p EXCEPT ![k] = p[nx], ![nx] = max]
                 d1 == [d EXCEPT ![k] = d[nx], ![nx] = d[k]]
             IN  [p |-> p1, d |-> SjteFlip(n, p1, d1, max),
                  r |-> TRUE, panic |-> FALSE]

\* the step function that reports the roll-over as one more permutation
SjteStepCountsRollover(n, p, d) ==
    LET m == SjteScan(n, p, d, 1, [max |-> -1, k |-> 0, panic |-> FALSE])
    IN  IF m.panic THEN [p |-> p, d |-> d, r |-> FALSE, panic |-> TRUE]
        ELSE IF m.k = 0 THEN [SjteReset(n, p, d) EXCEPT !.r = TRUE]
        ELSE SjteMove(n, p, d, m.k, m.max)

\* the step function returned by SJTE
SjteStep(n, p, d) ==
    LET m == SjteScan(n, p, d, 1, [max |-> -1, k |-> 0, panic |-> FALSE])
    IN  IF m.panic THEN [p |-> p, d |-> d, r |-> FALSE, panic |-> TRUE]
        ELSE IF m.k = 0 THEN SjteReset(n, p, d)
        ELSE SjteMove(n, p, d, m.k, m.max)

\* the slice SJTE returns: p[1 : n+1 : n+1]
SjteVisible(n, p) == [i \in 1..n |-> p[i]]

\* Ints(n): 0..n-1 in order
Ints(n) == [i \in 1..n |-> i - 1]

\* direction flags of positions 1..n
SjteFlags(n, d) == [i \in 1..n |-> d[i]]

SjteStart ==
    /\ en \in 0..SjteMaxN
    /\ ep = SjteNewP(en)
    /\ ed = SjteNewD(en)
    /\ eprev = ep
    /\ edprev = ed
    /\ ecalls = 0
    /\ ecycles = 0
    /\ eret = FALSE
    /\ epanic = FALSE
    /\ efirst = <<>>

\* the SJTE variables while another family runs
SjteIdle ==
    /\ en = 0
    /\ ep = <<>>
    /\ ed = <<>>
    /\ eprev = <<>>
    /\ edprev = <<>>
    /\ ecalls = 0
    /\ ecycles = 0
    /\ eret = FALSE
    /\ epanic = FALSE
    /\ efirst = <<>>

\* one call of the step function; a panic ends the use of the generator
CallSJTE ==
    /\ ~epanic
    /\ ecycles < SjteMaxCycles
    /\ LET res == SjteStep(en, ep, ed)
       IN  /\ ep' = res.p
           /\ ed' = res.d
           /\ eret' = res.r
           /\ epanic' = res.panic
           /\ ecalls' = ecalls + 1
           /\ ecycles' = IF res.r \/ res.panic THEN ecycles ELSE ecycles + 1
           /\ efirst' = IF ecycles = 0 /\ ~res.panic
                        THEN Append(efirst, [r |-> res.r, p |-> res.p,
                                             flags |-> SjteFlags(en, res.d)])
                        ELSE efirst
    /\ eprev' = ep
    /\ edprev' = ed
    /\ UNCHANGED <<en, notSjte>>

----------------------------------------------------------------------------
(* log2, ZPerm.LexRank and LexPerm, the rank codec                         *)
(*                                                                         *)
(* The counting array t has length 1<<(k+1) and is modelled as a function  *)
(* on 0..2^(k+1)-1.  *big.Int values are TLA+ integers.                    *)

RECURSIVE Pow2(_)
Pow2(k) == IF k = 0 THEN 1 ELSE 2 * Pow2(k - 1)

\* for ; x > 0xff; x >>= 8 { n += 8 }
RECURSIVE Log2Bytes(_, _)
Log2Bytes(x, n) ==
    IF x > 255 THEN Log2Bytes(x \div 256, n + 8) ELSE [x |-> x, n |-> n]

\* for ; x > 0; x >>= 1 { n++ }
RECURSIVE Log2Bits(_, _)
Log2Bits(x, n) == IF x > 0 THEN Log2Bits(x \div 2, n + 1) ELSE n

\* log2: x--, then the two loops
Log2(x) ==
    LET b == Log2Bytes(x - 1, 0)
    IN  Log2Bits(b.x, b.n)

\* t := make([]int, 1<<(k+1))
NewCounts(k) == [i \in 0..(Pow2(k + 1) - 1) |-> 0]

\* a counting array of half the length, 1<<k
InCountsHalf(k, i) == 0 <= i /\ i < Pow2(k)

InCounts(k, i) == 0 <= i /\ i < Pow2(k + 1)

\* the climb that never subtracts the count of the left sibling
RECURSIVE LexRankClimbNoSubtract(_, _, _)
LexRankClimbNoSubtract(k, j, st) ==
    IF j >= k \/ st.panic THEN st
    ELSE IF ~InCounts(k, st.nd) THEN [st EXCEPT !.panic = TRUE]
    ELSE LexRankClimbNoSubtract(k, j + 1,
             [st EXCEPT !.t[st.nd] = @ + 1, !.nd = st.nd \div 2])

\* for j := uint(0); j < k; j++ {
\*     if nd&1 == 1 { c -= t[nd&^1] }; t[nd]++; nd >>= 1 }
\* st = [t, nd, c, panic]
RECURSIVE LexRankClimb(_, _, _)
LexRankClimb(k, j, st) ==
    IF j >= k \/ st.panic THEN st
    ELSE LET nd == st.nd
             odd == nd % 2 = 1
         IN  IF ~InCounts(k, nd) \/ (odd /\ ~InCounts(k, nd - 1))
             THEN [st EXCEPT !.panic = TRUE]
             ELSE LexRankClimb(k, j + 1,
                     [t |-> [st.t EXCEPT ![nd] = @ + 1],
                      nd |-> nd \div 2,
                      c |-> IF odd THEN st.c - st.t[nd - 1] ELSE st.c,
                      panic |-> FALSE])

\* for i, c := range p { nd := 1<<k + c; climb; t[nd]++;
\*     r.Mul(&r, len(p)-i); r.Add(&r, c) }
\* i is the 0-based position; acc = [t, r, panic, adds], adds the values c
\* handed to r.Add, in order
RECURSIVE LexRankLoop(_, _, _, _)
LexRankLoop(p, k, i, acc) ==
    IF i >= Len(p) \/ acc.panic THEN acc
    ELSE LET st == LexRankClimb(k, 0,
                       [t |-> acc.t, nd |-> Pow2(k) + At(p, i), c |-> At(p, i),
                        panic |-> FALSE])
         IN  IF st.panic \/ ~InCounts(k, st.nd)
             THEN [acc EXCEPT !.panic = TRUE]
             ELSE LexRankLoop(p, k, i + 1,
                     [t |-> [st.t EXCEPT ![st.nd] = @ + 1],
                      r |-> acc.r * (Len(p) - i) + st.c,
                      panic |-> FALSE,
                      adds |-> Append(acc.adds, st.c)])

\* the state LexRank ends its loop in
LexRankRun(p) ==
    LexRankLoop(p, Log2(Len(p)), 0,
                [t |-> NewCounts(Log2(Len(p))), r |-> 0, panic |-> FALSE,
                 adds |-> <<>>])

\* func (p ZPerm) LexRank() *big.Int: [r, panic]
LexRank(p) ==
    LET acc == LexRankRun(p)
    IN  [r |-> acc.r, panic |-> acc.panic]

\* NewFact(i, n), whose code is not among the sources: ok exactly when
\* 0 <= i < n!, and then the factorial-base digits of i in the layout LexPerm
\* reads them: n-1 digits, f[j] the digit of place value (j+1)!, in 0..j+1
\* (the digit of place 0!, always 0, is not stored)
NewFact(i, n) ==
    IF i < 0 \/ i >= Factorial(n) THEN [f |-> <<>>, ok |-> FALSE]
    ELSE [f |-> [j \in 1..(n - 1) |-> (i \div Factorial(j)) % (j + 1)], ok |-> TRUE]

\* for i := uint(0); i <= k; i++ {
\*     for j, end := uint(1), uint(1)<<i; j <= end; j++ { t[end+j-1] = 1 << (k - i) } }
\* every node of depth i gets the number of leaves below it; t[0] stays 0
RECURSIVE DepthOf(_)
DepthOf(nd) == IF nd <= 1 THEN 0 ELSE 1 + DepthOf(nd \div 2)

LexPermCounts(k) ==
    [nd \in 0..(Pow2(k + 1) - 1) |-> IF nd = 0 THEN 0 ELSE Pow2(k - DepthOf(nd))]

\* for j := uint(0); j < k; j++ {
\*     t[nd]--; nd <<= 1; if d >= t[nd] { d -= t[nd]; nd++ } }
\* st = [t, nd, d, panic]
RECURSIVE LexPermDescend(_, _, _)
LexPermDescend(k, j, st) ==
    IF j >= k \/ st.panic THEN st
    ELSE LET nd == st.nd
             nd2 == 2 * nd
         IN  IF ~InCounts(k, nd) \/ ~InCounts(k, nd2)
             THEN [st EXCEPT !.panic = TRUE]
             ELSE LET t1 == [st.t EXCEPT ![nd] = @ - 1]
                  IN  LexPermDescend(k, j + 1,
                         IF st.d >= t1[nd2]
                         THEN [t |-> t1, nd |-> nd2 + 1, d |-> st.d - t1[nd2],
                               panic |-> FALSE]
                         ELSE [t |-> t1, nd |-> nd2, d |-> st.d, panic |-> FALSE])

\* p[idx] = v on a slice of length n: index out of range panics
LexPermStore(n, acc, idx, v) ==
    IF idx < 0 \/ idx >= n
    THEN [acc EXCEPT !.panic = TRUE]
    ELSE [acc EXCEPT !.p[idx + 1] = v, !.writes = @ + 1]

\* for i := len(f) - 1; i >= 0; i-- { d := f[i]; nd := 1; descend;
\*     t[nd] = 0; p[len(f)-i-1] = nd - k2 }
\* acc = [p, t, panic, writes]
RECURSIVE LexPermLoop(_, _, _, _, _)
LexPermLoop(f, n, k, i, acc) ==
    IF i < 0 \/ acc.panic THEN acc
    ELSE LET st == LexPermDescend(k, 0,
                       [t |-> acc.t, nd |-> 1, d |-> At(f, i), panic |-> FALSE])
         IN  IF st.panic \/ ~InCounts(k, st.nd)
             THEN [acc EXCEPT !.panic = TRUE]
             ELSE LexPermLoop(f, n, k, i - 1,
                     LexPermStore(n, [acc EXCEPT !.t = [st.t EXCEPT ![st.nd] = 0]],
                                  Len(f) - i - 1, st.nd - Pow2(k)))

\* nd := 1; for j := uint(0); j < k; j++ { nd <<= 1; nd += 1 - t[nd] }
\* st = [nd, panic]
RECURSIVE LexPermLast(_, _, _, _)
LexPermLast(k, t, j, st) ==
    IF j >= k \/ st.panic THEN st
    ELSE LET nd2 == 2 * st.nd
         IN  IF ~InCounts(k, nd2) THEN [st EXCEPT !.panic = TRUE]
             ELSE LexPermLast(k, t, j + 1, [nd |-> nd2 + 1 - t[nd2], panic |-> FALSE])

\* LexPerm from p := make(ZPerm, n) to return p, true
LexPermFill(f, n) ==
    LET k == Log2(n)
        acc == LexPermLoop(f, n, k, Len(f) - 1,
                   [p |-> [x \in 1..n |-> 0], t |-> LexPermCounts(k),
                    panic |-> FALSE, writes |-> 0])
        last == LexPermLast(k, acc.t, 0, [nd |-> 1, panic |-> FALSE])
        fin == IF acc.panic \/ last.panic THEN [acc EXCEPT !.panic = TRUE]
               ELSE LexPermStore(n, acc, Len(f), last.nd - Pow2(k))
    IN  IF fin.panic
        THEN [p |-> <<>>, ok |-> FALSE, panic |-> TRUE, alloc |-> TRUE,
              writes |-> fin.writes]
        ELSE [p |-> fin.p, ok |-> TRUE, panic |-> FALSE, alloc |-> TRUE,
              writes |-> fin.writes]

\* return nil, false
LexPermNil ==
    [p |-> <<>>, ok |-> FALSE, panic |-> FALSE, alloc |-> FALSE, writes |-> 0]

\* LexPerm that goes on with whatever digits it got when NewFact reports !ok
LexPermIgnoresOk(i, n) == LexPermFill(NewFact(i, n).f, n)

\* func LexPerm(i *big.Int, n int) (ZPerm, bool)
\* [p, ok, panic, alloc, writes]: the two results, whether the call panicked,
\* whether p was made, and the number of stores into p
LexPerm(i, n) ==
    LET nf == NewFact(i, n)
    IN  IF ~nf.ok THEN LexPermNil ELSE LexPermFill(nf.f, n)

\* all permutations of 0..n-1
ZPerms(n) == {q \in [1..n -> 0..(n - 1)] : \A v \in 0..(n - 1) : \E x \in 1..n : q[x] = v}

\* all sequences of n integers of -RankBadVal..RankBadVal: a ZPerm is a
\* []int, and nothing checks that it holds a permutation
IntSeqs(n) == [1..n -> (0 - RankBadVal)..RankBadVal]

RankStart ==
    /\ \/ /\ rkind = "perm"
          /\ rn \in 0..RankMaxN
          /\ rorigp \in ZPerms(rn)
          /\ rorigr = 0
       \/ /\ rkind = "rank"
          /\ rn \in 0..RankMaxN
          /\ rorigp = <<>>
          /\ rorigr \in (0 - RankSlack)..(Factorial(rn) - 1 + RankSlack)
       \/ /\ rkind = "ints"
          /\ rn \in 0..RankBadLen
          /\ rorigp \in IntSeqs(rn)
          /\ rorigr = 0
    /\ rstage = 0
    /\ rperm = rorigp
    /\ rrank = rorigr
    /\ rrankpanic = FALSE
    /\ rlex = LexPermNil

\* the rank codec variables while another family runs
RankIdle ==
    /\ rn = 0
    /\ rkind = "idle"
    /\ rorigp = <<>>
    /\ rorigr = 0
    /\ rstage = 0
    /\ rperm = <<>>
    /\ rrank = 0
    /\ rrankpanic = FALSE
    /\ rlex = LexPermNil

\* r := p.LexRank(), on the caller's permutation or on the one LexPerm returned
CallLexRank ==
    /\ \/ rkind = "perm" /\ rstage = 0
       \/ rkind = "ints" /\ rstage = 0
       \/ rkind = "rank" /\ rstage = 1 /\ rlex.ok
    /\ LET res == LexRank(rperm)
       IN  /\ rrank' = res.r
           /\ rrankpanic' = res.panic
    /\ rstage' = rstage + 1
    /\ UNCHANGED <<rn, rkind, rorigp, rorigr, rperm, rlex, notRank>>

\* p, ok := LexPerm(r, n), on the caller's integer or on the rank LexRank returned
CallLexPerm ==
    /\ \/ rkind = "rank" /\ rstage = 0
       \/ rkind = "perm" /\ rstage = 1 /\ ~rrankpanic
    /\ LET res == LexPerm(rrank, rn)
       IN  /\ rlex' = res
           /\ rperm' = res.p
    /\ rstage' = rstage + 1
    /\ UNCHANGED <<rn, rkind, rorigp, rorigr, rrank, rrankpanic, notRank>>

RankStep == CallLexRank \/ CallLexPerm

----------------------------------------------------------------------------
(* The specifications. *)

LexInit == LexStart /\ SjtrIdle /\ SjteIdle /\ RankIdle

LexSpec == LexInit /\ [][LexNextStep]_vars

\* the loop keeps calling until a call returns false
LexFairSpec == LexSpec /\ WF_vars(LexNextStep)

SjtrInit == SjtrStart /\ LexIdle /\ SjteIdle /\ RankIdle

SjtrSpec == SjtrInit /\ [][CallSJTRecursive]_vars

SjteInit == SjteStart /\ LexIdle /\ SjtrIdle /\ RankIdle

SjteSpec == SjteInit /\ [][CallSJTE]_vars

RankInit == RankStart /\ LexIdle /\ SjtrIdle /\ SjteIdle

RankSpec == RankInit /\ [][RankStep]_vars

\* both generators side by side on the same n: p := Ints(n) handed to
\* SJTRecursive, and SJTE(n); their calls interleave freely
SjtInit ==
    /\ SjtrStart
    /\ SjteStart
    /\ sp = Ints(en)
    /\ LexIdle
    /\ RankIdle

SjtSpec == SjtInit /\ [][CallSJTRecursive \/ CallSJTE]_vars

----------------------------------------------------------------------------
(* Vocabulary of the LexOrder claims. *)

Range(s) == {s[i] : i \in 1..Len(s)}

Occurrences(s, v) == Cardinality({i \in 1..Len(s) : s[i] = v})

\* all arrangements of the multiset of values of s
Arrangements(s) ==
    {q \in [1..Len(s) -> Range(s)] :
        \A v \in Range(s) : Occurrences(q, v) = Occurrences(s, v)}

\* a < b in lexicographic order, a and b of equal length
LexLess(a, b) ==
    \E i \in 1..Len(a) :
        /\ a[i] < b[i]
        /\ \A j \in 1..(i - 1) : a[j] = b[j]

NonIncreasing(s) == \A i \in 1..(Len(s) - 1) : s[i] >= s[i + 1]

NonDecreasing(s) == \A i \in 1..(Len(s) - 1) : s[i] <= s[i + 1]

RECURSIVE ProductOfFactorials(_, _)
ProductOfFactorials(s, vs) ==
    IF vs = {} THEN 1
    ELSE LET v == CHOOSE x \in vs : TRUE
         IN  Factorial(Occurrences(s, v)) * ProductOfFactorials(s, vs \ {v})

\* n! / prod(multiplicity!)
MultisetPermutations(s) ==
    Factorial(Len(s)) \div ProductOfFactorials(s, Range(s))

\* C1: a call on a p that is not non-increasing returns true and leaves p
\* the least arrangement of the same multiset that is strictly greater than
\* the input arrangement.
C1_NextArrangement ==
    (lcalled /\ ~NonIncreasing(lprev)) =>
        /\ lret
        /\ lp \in Arrangements(lprev)
        /\ LexLess(lprev, lp)
        /\ \A q \in Arrangements(lprev) : LexLess(lprev, q) => ~LexLess(q, lp)

\* a call on a sequence with a repeated value that has a successor has returned
C1_Witness ==
    /\ lcalled
    /\ lret
    /\ Len(lprev) = MaxLen
    /\ Cardinality(Range(lprev)) < Len(lprev)
    /\ lp # lprev

\* C2: a call returns false exactly when p is non-increasing, and then p is
\* unmodified in every position.
C2_FalseIffNonIncreasing ==
    lcalled =>
        /\ (lret = FALSE) <=> NonIncreasing(lprev)
        /\ (lret = FALSE) => lp = lprev

\* false has been returned on a non-increasing sequence of several values
C2_Witness ==
    /\ lcalled
    /\ lret = FALSE
    /\ Len(lprev) >= 3
    /\ NonIncreasing(lprev)
    /\ Cardinality(Range(lprev)) >= 2

\* the safety part of C3
C3_Enumeration ==
    /\ (lcalled /\ lret) => LexLess(lprev, lp)
    /\ (NonDecreasing(lstart) /\ lpc = "done") =>
           /\ lvisited = MultisetPermutations(lstart)
           /\ NonIncreasing(lp)
           /\ lp \in Arrangements(lstart)

\* C3: from the sorted-ascending arrangement the loop visits exactly
\* n!/prod(multiplicity!) arrangements, each strictly greater than the one
\* before, stops, and stops at the sorted-descending arrangement.
C3_VisitsAllAndTerminates == []C3_Enumeration /\ <>(lpc = "done")

\* a full enumeration of a multiset with a repeated value has finished
C3_Witness ==
    /\ lpc = "done"
    /\ NonDecreasing(lstart)
    /\ Len(lstart) = MaxLen
    /\ Cardinality(Range(lstart)) = 2
    /\ lvisited > 2

----------------------------------------------------------------------------
(* The SJTRecursive claims. *)

\* positions (1-based) where a and b differ
Differing(a, b) == {k \in 1..Len(a) : a[k] # b[k]}

\* C4: the iterator returns true on exactly its first n! calls and false on
\* call n!+1, and right after that first false return p is in the order it
\* had when the iterator was constructed (every n >= 0).
C4_FactorialTruesThenRestored ==
    /\ (1 <= scalls /\ scalls <= SjtrFactorial) => sret
    /\ scalls = SjtrFactorial + 1 => (~sret /\ sp = sstart)

\* the first false return on a slice of the longest length, of distinct values
C4_Witness ==
    /\ Len(sstart) = SjtrMaxN
    /\ Cardinality(Range(sstart)) = SjtrMaxN
    /\ scalls = SjtrFactorial + 1
    /\ ~sret

\* C5 as stated: every call that returns true, the first included, leaves p
\* differing from its contents before the call in exactly two positions,
\* and the two are adjacent.
C5_Original ==
    (scalls >= 1 /\ sret) =>
        \E k \in 1..(Len(sp) - 1) : Differing(sp, sprev) = {k, k + 1}

\* C5 amended: the first call returns true without touching p; every later
\* call that returns true does exactly one swap, of two adjacent positions
\* (so where the two values differ, p changes in exactly those two
\* positions), and nothing else.
C5_OneAdjacentSwapAfterFirst ==
    /\ (scalls = 1) => (sret /\ sswaps = <<>> /\ sp = sprev)
    /\ (scalls >= 2 /\ sret) =>
           /\ Len(sswaps) = 1
           /\ \E k \in 0..(Len(sp) - 2) :
                  /\ sswaps[1] \in {<<k, k + 1>>, <<k + 1, k>>}
                  /\ sp = Swap(sprev, k, k + 1)
                  /\ (sprev[k + 1] # sprev[k + 2]) =>
                         Differing(sp, sprev) = {k + 1, k + 2}

\* a later true call has swapped two different values, away from the front
C5_Witness ==
    /\ scalls >= 2
    /\ sret
    /\ Len(sp) = SjtrMaxN
    /\ Differing(sp, sprev) = {SjtrMaxN - 1, SjtrMaxN}

----------------------------------------------------------------------------
(* The SJTE claims. *)

\* C6 as stated, for the generators whose step function does not panic
\* (n >= 1): calls 1..n! return true, after the n!-th the array is 0..n-1,
\* and call n!+1 returns false.
C6_Original ==
    en >= 1 =>
        /\ (1 <= ecalls /\ ecalls <= Factorial(en)) => eret
        /\ ecalls = Factorial(en) => SjteVisible(en, ep) = Ints(en)
        /\ ecalls = Factorial(en) + 1 => ~eret

\* C6 amended: for n >= 1 exactly n!-1 consecutive calls return true, call
\* n! returns false, and after that false return the array is 0..n-1 again.
C6_FactorialMinusOneTrues ==
    en >= 1 =>
        /\ (1 <= ecalls /\ ecalls <= Factorial(en) - 1) => eret
        /\ ecalls = Factorial(en) => (~eret /\ SjteVisible(en, ep) = Ints(en))

\* the first false return of the largest generator
C6_Witness ==
    /\ en = SjteMaxN
    /\ ecalls = Factorial(en)
    /\ ~eret
    /\ SjteVisible(en, eprev) # Ints(en)

----------------------------------------------------------------------------
(* The rank codec claims. *)

\* LexPerm(LexRank(p), n) has returned, p the caller's permutation
UnrankedAfterRank == rkind = "perm" /\ rstage = 2

\* the caller's integer is a rank of size n
InRankRange == 0 <= rorigr /\ rorigr < Factorial(rn)

\* LexPerm returned (p, true)
LexPermSucceeded == rlex.ok /\ ~rlex.panic

\* C8: for every n >= 0 and every permutation p of 0..n-1,
\* LexPerm(LexRank(p), n) returns ok = true and a sequence equal to p.
C8_UnrankAfterRank ==
    UnrankedAfterRank => (LexPermSucceeded /\ rperm = rorigp)

\* C9: for every n >= 0 and every r in 0..n!-1, LexPerm(r, n) succeeds and
\* LexRank of its result equals r.
C9_RankAfterUnrank ==
    (rkind = "rank" /\ InRankRange) =>
        /\ rstage >= 1 => LexPermSucceeded
        /\ rstage = 2 => (~rrankpanic /\ rrank = rorigr)

\* C10: for every n >= 0 and every r < 0 or r >= n!, LexPerm(r, n) returns
\* (nil, false) without a panic, and no output permutation is made or
\* written before it returns.
C10_OutOfRangeFails ==
    (rkind = "rank" /\ rstage >= 1 /\ ~InRankRange) =>
        /\ rlex.p = <<>>
        /\ ~rlex.ok
        /\ ~rlex.panic
        /\ ~rlex.alloc
        /\ rlex.writes = 0
        /\ rstage = 1

\* LexPerm has been called with n! for the largest n, and with -1
C10_Witness ==
    /\ rkind = "rank"
    /\ rstage = 1
    /\ rn = RankMaxN
    /\ rorigr \in {-1, Factorial(rn)}

\* C7: for n >= 1, right after any false return the array (cells 1..n and
\* both guard cells) and the direction flags of positions 1..n are as right
\* after construction, and in every later cycle each call returns the value
\* and leaves the array that the call at the same place of the first cycle
\* did.
C7_CyclicRestart ==
    (en >= 1 /\ ecalls >= 1) =>
        /\ ~eret =>
               /\ ep = SjteNewP(en)
               /\ SjteFlags(en, ed) = SjteFlags(en, SjteNewD(en))
        /\ ecalls > Factorial(en) =>
               LET first == efirst[((ecalls - 1) % Factorial(en)) + 1]
               IN  /\ eret = first.r
                   /\ ep = first.p
                   /\ SjteFlags(en, ed) = first.flags

\* the second cycle of the largest generator has run to its false return
C7_Witness ==
    /\ en = SjteMaxN
    /\ ecalls = 2 * Factorial(en)
    /\ ecycles = 2
    /\ ~eret

\* all orderings of the values in S
RECURSIVE OrderingsOf(_)
OrderingsOf(S) ==
    IF S = {} THEN {<<>>}
    ELSE UNION {{<<x>> \o q : q \in OrderingsOf(S \ {x})} : x \in S}

\* the values of 0..n-1 below p[i] that p has not used before position i
UnusedBelow(p, i) ==
    {v \in 0..(Len(p) - 1) : v < p[i] /\ \A j \in 1..(i - 1) : p[j] # v}

\* C11: for a permutation p of 0..n-1, LexRank(p) is the number of
\* permutations of 0..n-1 lexicographically smaller than p, so it lies in
\* 0..n!-1, and the value added at each position i is the number of values
\* not yet used that are smaller than p[i].
C11_RankIsLexPosition ==
    (rkind = "perm" /\ rstage >= 1) =>
        /\ ~rrankpanic
        /\ rrank = Cardinality({q \in OrderingsOf(0..(rn - 1)) : LexLess(q, rorigp)})
        /\ 0 <= rrank /\ rrank < Factorial(rn)
        /\ LexRankRun(rorigp).adds =
               [i \in 1..rn |-> Cardinality(UnusedBelow(rorigp, i))]

\* the rank of a permutation of the largest size, neither first nor last
C11_Witness ==
    /\ rkind = "perm"
    /\ rstage = 1
    /\ rn = RankMaxN
    /\ rrank > 0
    /\ rrank < Factorial(rn) - 1

\* the values n-1, n-2, .., 0
Descending(n) == [i \in 1..n |-> n - i]

\* C12: for every n >= 1 and every r in 0..n!-1, LexPerm(r, n) returns a
\* sequence of length n holding each of 0..n-1 exactly once, the permutation
\* at lexicographic position r: the identity for r = 0, the descending
\* sequence for r = n!-1.
C12_UnrankIsLexPosition ==
    (rkind = "rank" /\ rstage >= 1 /\ rn >= 1 /\ InRankRange) =>
        /\ LexPermSucceeded
        /\ Len(rlex.p) = rn
        /\ rlex.p \in OrderingsOf(0..(rn - 1))
        /\ Cardinality({q \in OrderingsOf(0..(rn - 1)) : LexLess(q, rlex.p)}) = rorigr
        /\ rorigr = 0 => rlex.p = Ints(rn)
        /\ rorigr = Factorial(rn) - 1 => rlex.p = Descending(rn)

\* the values of s are pairwise distinct
Injective(s) == \A a, b \in 1..Len(s) : a # b => s[a] # s[b]

\* C13: when the n initial values of p are pairwise distinct, the n!
\* arrangements p holds after the n! calls of the iterator that return true
\* are pairwise distinct.
C13_TrueCallsAllDistinct ==
    Injective(sstart) =>
        /\ Injective(strues)
        /\ scalls >= SjtrFactorial => Len(strues) = SjtrFactorial

\* all n! true calls made on a slice of the largest size with distinct values
C13_Witness ==
    /\ Len(sstart) = SjtrMaxN
    /\ Injective(sstart)
    /\ scalls = SjtrFactorial
    /\ Len(strues) = SjtrFactorial
    /\ Cardinality(Range(strues)) = SjtrFactorial

\* the number of calls so far that returned false
SjtrFalses == scalls - Len(strues)

\* C14: the iterator is not cyclic: once it has returned false, every later
\* call returns false and leaves p unmodified.
C14_StaysFalse ==
    /\ sret => SjtrFalses = 0
    /\ SjtrFalses >= 2 => (sp = sprev /\ sswaps = <<>>)

\* a call made after the first false return, on a slice of the largest size
C14_Witness ==
    /\ Len(sstart) = SjtrMaxN
    /\ scalls = SjtrFactorial + 1 + SjtrExtraCalls
    /\ SjtrFalses = 1 + SjtrExtraCalls
    /\ ~sret

\* the positions of 1..n whose element is mobile before the latest call: it
\* is greater than the neighbour its direction flag points to
SjteMobile == {i \in 1..en : eprev[i] > eprev[i + edprev[i]]}

\* C15: a step that returns true changes positions 1..n of p in exactly two
\* adjacent positions: it swaps the largest mobile element with the
\* neighbour its direction flag points to; the guard cells 0 and n+1 are
\* not changed.
C15_TrueStepSwapsLargestMobile ==
    (eret /\ ~epanic) =>
        /\ SjteMobile # {}
        /\ LET k == CHOOSE i \in SjteMobile : \A j \in SjteMobile : eprev[j] <= eprev[i]
               nx == k + edprev[k]
           IN  /\ nx \in 1..en
               /\ nx = k + 1 \/ nx = k - 1
               /\ {i \in 1..en : ep[i] # eprev[i]} = {k, nx}
               /\ ep[k] = eprev[nx]
               /\ ep[nx] = eprev[k]
        /\ ep[0] = eprev[0]
        /\ ep[en + 1] = eprev[en + 1]

\* a true step taken while more than one element is mobile, so the largest
\* one had to be picked
C15_Witness ==
    /\ eret
    /\ ~epanic
    /\ en = SjteMaxN
    /\ Cardinality(SjteMobile) >= 2
    /\ \E i \in SjteMobile : edprev[i] = 1

\* the sequence SJTE has produced in its first cycle so far: the identity it
\* returned at construction, then the visible array after each true step
SjteSequence ==
    LET trues == {j \in 1..Len(efirst) : efirst[j].r}
    IN  <<Ints(en)>> \o [j \in 1..Cardinality(trues) |-> SjteVisible(en, efirst[j].p)]

\* C16: for every n >= 1 the sequence of one SJTE cycle (the identity, then
\* the array after each true step) is, element by element and in order, the
\* sequence of contents of a slice 0..n-1 after each true-returning call of
\* SJTRecursive.
C16_SameSequence ==
    en >= 1 =>
        LET seq == SjteSequence
            m == IF Len(strues) <= Len(seq) THEN Len(strues) ELSE Len(seq)
        IN  /\ SubSeq(strues, 1, m) = SubSeq(seq, 1, m)
            /\ (scalls > SjtrFactorial /\ ecycles >= 1) => strues = seq

\* both generators have finished a cycle of the largest size
C16_Witness ==
    /\ en = SjtrMaxN
    /\ Len(sstart) = en
    /\ scalls > SjtrFactorial
    /\ ecycles >= 1
    /\ Len(strues) = Factorial(en)
    /\ Len(SjteSequence) = Factorial(en)

\* C17: for n = 0 and n = 1, LexRank of the only permutation is 0, and
\* LexPerm(0, n) completes without an out-of-range index and returns
\* ok = true with the identity of length n.
C17_SmallestSizes ==
    rn <= 1 =>
        /\ (rkind = "perm" /\ rstage >= 1) => (~rrankpanic /\ rrank = 0)
        /\ (rkind = "rank" /\ rorigr = 0 /\ rstage >= 1) =>
               (~rlex.panic /\ rlex.ok /\ rlex.p = Ints(rn))

\* LexRank has returned or panicked on a sequence that need not be a permutation
RankedInts == rkind = "ints" /\ rstage >= 1

\* the values that index inside the counting array of a sequence of length
\* n: -2^k .. 2^k - 1, k = log2(n)
TreeValues(n) == (0 - Pow2(Log2(n)))..(Pow2(Log2(n)) - 1)

\* C18 as stated: for every integer sequence p (repeated values, values
\* >= len(p), negative values), LexRank completes without indexing its
\* counting array outside 0..2^(k+1)-1, k = log2(len(p)).
C18_Original == RankedInts => ~rrankpanic

\* C18, amended: LexRank completes without an out-of-range index exactly on
\* the sequences whose values all lie in -2^k..2^k-1, repeated values and
\* values >= len(p) included; any value outside makes it index the counting
\* array out of range.
C18_SafeOnTreeValues ==
    RankedInts => (rrankpanic <=> \E i \in 1..rn : rorigp[i] \notin TreeValues(rn))

\* LexRank completed on a sequence with a repeated value, a value >= len(p)
\* and a negative value
C18_Witness ==
    /\ RankedInts
    /\ ~rrankpanic
    /\ rn = RankBadLen
    /\ \E i, j \in 1..rn : i # j /\ rorigp[i] = rorigp[j]
    /\ \E i \in 1..rn : rorigp[i] >= rn
    /\ \E i \in 1..rn : rorigp[i] < 0

\* C19: for every n >= 0, n = 0 included, every call of SJTE's step function
\* reads and writes p and d only at indices 0..n+1: the scan (i + d[i]), the
\* swap (k + d[k]) and the reset (indices 1, 2 and 3..n) never index out of
\* range.
C19_IndicesInRange == ecalls >= 1 => ~epanic

\* C20: LexNext(p), LexNextInt(p) and LexNextSort on a sort.Interface whose
\* Less(i, j) is p[i] < p[j] and whose Swap exchanges p[i] and p[j] return
\* the same boolean and leave p with the same contents, for every int
\* sequence p.
C20_ThreeFormsAgree ==
    lcalled =>
        /\ LexNext(lprev) = [p |-> lp, r |-> lret]
        /\ LexNextInt(lprev) = [p |-> lp, r |-> lret]
        /\ LexNextSort(lprev) = [p |-> lp, r |-> lret]

\* a call that returned true on a sequence of the largest length with a
\* repeated value right of the pivot, and reversed a tail
C20_Witness ==
    /\ lcalled
    /\ lret
    /\ Len(lprev) = MaxLen
    /\ \E i, j \in 1..Len(lprev) : i < j /\ lprev[i] = lprev[j] /\ lp[i] # lprev[i]
    /\ Cardinality(Differing(lp, lprev)) >= 3
====
